---- MODULE Spec2Model ----
(***************************************************************************)
(* Livestream acquisition service of dyvine                                *)
(* (src/src/dyvine/services/livestreams.py): the identifier resolution,    *)
(* the room-info fallback chain, the duplicate check and job registry of   *)
(* LivestreamService.download_stream, the background downloader            *)
(* _run_stream_download and get_download_status.                           *)
(*                                                                         *)
(* Python strings are sequences of one-character strings; None and the     *)
(* empty string are both the empty sequence (the code only tests their     *)
(* truthiness); an optional value is a sequence of length at most one; a   *)
(* dict of stream variants is a sequence of <<label, url>> pairs in        *)
(* insertion order.                                                        *)
(***************************************************************************)
EXTENDS Integers, Sequences, FiniteSets, TLC

VARIABLES
    calls,          \* per request: the locals of one download_stream / status coroutine
    download_jobs,  \* per service instance, its download_jobs: job key -> background task
    tasks,          \* per request: the background task it spawned, if any
    files,          \* output files present on disk
    fs_dirs,        \* directories created by download_stream
    selection,      \* one call of _select_stream_url: its argument and its result
    active_downloads, \* UserService._active_downloads: task id -> task dict
    workers,        \* per task id: the locals of its _process_download coroutine
    temp_dir,       \* whether the directory temp_downloads exists
    temp_files,     \* the files beneath temp_downloads
    user_poll,      \* the last answer of UserService.get_download_status
    settings,       \* the application settings: the Douyin cookie and the R2 fields
    rss,            \* resident memory of the process, in bytes
    requests,       \* per HTTP request: the locals of request_middleware and its route
    logger_correlation_id, \* app.state.logger.correlation_id
    log,            \* the entries the middleware has logged
    storage,        \* an R2StorageService built from the settings, and its last upload
    paging          \* one call of PostService.download_all_user_posts

live_vars == <<calls, download_jobs, tasks, files, fs_dirs>>

user_vars == <<active_downloads, workers, temp_dir, temp_files, user_poll>>

http_vars == <<settings, rss, requests, logger_correlation_id, log, storage>>

vars == <<calls, download_jobs, tasks, files, fs_dirs, selection,
          active_downloads, workers, temp_dir, temp_files, user_poll,
          settings, rss, requests, logger_correlation_id, log, storage, paging>>

(***************************************************************************)
(* Bounds                                                                  *)
(***************************************************************************)
MaxCalls == 2       \* requests over the life of the service
MaxLen == 4         \* longest identifier of the exhaustive resolver inputs
MaxVariants == 3    \* most entries of a variant map given to the selector

Calls == 1..MaxCalls

\* LivestreamService instances: the one a caller of the service holds, and one
\* per request for the routes that construct their own
Shared == 0

Services == {Shared} \cup Calls

(***************************************************************************)
(* Strings                                                                 *)
(***************************************************************************)
None == <<>>

Some(x) == <<x>>

Digits == {"0", "1", "2", "3", "4", "5", "6", "7", "8", "9"}

UpperCase == <<"A", "B", "C", "D", "E", "F", "G", "H", "I", "J", "K", "L", "M",
               "N", "O", "P", "Q", "R", "S", "T", "U", "V", "W", "X", "Y", "Z">>

LowerCase == <<"a", "b", "c", "d", "e", "f", "g", "h", "i", "j", "k", "l", "m",
               "n", "o", "p", "q", "r", "s", "t", "u", "v", "w", "x", "y", "z">>

SchemeChars == {UpperCase[i] : i \in 1..26} \cup {LowerCase[i] : i \in 1..26}
               \cup Digits \cup {"+", "-", "."}

Whitespace == {" "}

MinOf(S) == CHOOSE x \in S : \A y \in S : x <= y

MaxOf(S) == CHOOSE x \in S : \A y \in S : x >= y

\* str.isdigit(): non-empty and every character a digit
isdigit(s) == Len(s) > 0 /\ \A i \in 1..Len(s) : s[i] \in Digits

\* str.strip(): leading and trailing whitespace removed
strip(s) ==
    LET keep == {i \in 1..Len(s) : s[i] \notin Whitespace}
    IN  IF keep = {} THEN <<>> ELSE SubSeq(s, MinOf(keep), MaxOf(keep))

\* str.rstrip("/")
rstrip_slash(s) ==
    LET keep == {i \in 1..Len(s) : s[i] # "/"}
    IN  IF keep = {} THEN <<>> ELSE SubSeq(s, 1, MaxOf(keep))

\* str.find(sub, from): the first index >= from where sub starts, 0 when there is none
find(s, sub, from) ==
    LET hits == {i \in from..(Len(s) - Len(sub) + 1) :
                    SubSeq(s, i, i + Len(sub) - 1) = sub}
    IN  IF hits = {} THEN 0 ELSE MinOf(hits)

\* sub in s
contains(s, sub) == find(s, sub, 1) # 0

\* s.startswith(prefix)
startswith(s, prefix) ==
    Len(s) >= Len(prefix) /\ SubSeq(s, 1, Len(prefix)) = prefix

\* s.split(sep)[0] for a one-character separator
split_first(s, sep) ==
    LET i == find(s, <<sep>>, 1)
    IN  IF i = 0 THEN s ELSE SubSeq(s, 1, i - 1)

\* s.split("/")[-1]
split_last_slash(s) ==
    LET slashes == {i \in 1..Len(s) : s[i] = "/"}
    IN  IF slashes = {} THEN s ELSE SubSeq(s, MaxOf(slashes) + 1, Len(s))

\* str.lower()
lower(s) ==
    [i \in 1..Len(s) |->
        IF \E k \in 1..26 : UpperCase[k] = s[i]
        THEN LowerCase[CHOOSE k \in 1..26 : UpperCase[k] = s[i]]
        ELSE s[i]]

\* the schemes of urllib.parse.uses_params that the inputs can carry
ParamSchemes == {<<>>, <<"h", "t", "t", "p">>, <<"h", "t", "t", "p", "s">>,
                 <<"f", "t", "p">>}

\* urllib.parse._splitparams(url)[0]: the ";params" of the last segment cut off
splitparams(url) ==
    LET slashes == {i \in 1..Len(url) : url[i] = "/"}
        from == IF slashes = {} THEN 1 ELSE MaxOf(slashes)
        i == find(url, <<";">>, from)
    IN  IF i = 0 THEN url ELSE SubSeq(url, 1, i - 1)

\* urllib.parse.urlparse(url), its netloc and path: the scheme is what precedes
\* the first ":" when it starts with a letter and holds only scheme characters;
\* a netloc follows "//" up to the first of "/", "?", "#"; the fragment, the
\* query and the params are cut off the rest, which is the path.
urlparse(url) ==
    LET colon == find(url, <<":">>, 1)
        has_scheme ==
            /\ colon > 1
            /\ \E k \in 1..26 : url[1] \in {UpperCase[k], LowerCase[k]}
            /\ \A i \in 1..(colon - 1) : url[i] \in SchemeChars
        scheme == IF has_scheme THEN lower(SubSeq(url, 1, colon - 1)) ELSE <<>>
        rest == IF has_scheme THEN SubSeq(url, colon + 1, Len(url)) ELSE url
        has_netloc == startswith(rest, <<"/", "/">>)
        delims == {i \in 3..Len(rest) : rest[i] \in {"/", "?", "#"}}
        delim == IF delims = {} THEN Len(rest) + 1 ELSE MinOf(delims)
        netloc == IF has_netloc THEN SubSeq(rest, 3, delim - 1) ELSE <<>>
        after == IF has_netloc THEN SubSeq(rest, delim, Len(rest)) ELSE rest
        noquery == split_first(split_first(after, "#"), "?")
    IN  [netloc |-> netloc,
         path |-> IF scheme \in ParamSchemes THEN splitparams(noquery) ELSE noquery]

(***************************************************************************)
(* Identifiers and the upstream platform                                   *)
(***************************************************************************)
Https == <<"h", "t", "t", "p", "s", ":", "/", "/">>

DouyinCom == <<"d", "o", "u", "y", "i", "n", ".", "c", "o", "m">>

UserPrefix == <<"/", "u", "s", "e", "r", "/">>

\* the short web id of the modelled room, as in https://live.douyin.com/1
WebRid == <<"1">>

\* the long room id the platform reports for it
RoomId == <<"7">>

IdWebRid == WebRid

IdRoom == <<" ">> \o RoomId \o <<" ">>

IdLiveUrl == Https \o <<"l", "i", "v", "e", ".">> \o DouyinCom \o <<"/">> \o WebRid \o <<"/">>

IdHandle == Https \o <<"v", ".">> \o DouyinCom \o <<"/", "a", "b", "/">>

IdProfile == Https \o <<"w", "w", "w", ".">> \o DouyinCom \o UserPrefix \o <<"u">>

IdBlank == <<" ">>

\* the identifiers the requests of the service model carry
Identifiers == {IdWebRid, IdRoom, IdLiveUrl, IdHandle, IdProfile, IdBlank}

\* every string of at most n characters over the alphabet
RECURSIVE StringsUpTo(_, _)
StringsUpTo(alphabet, n) ==
    IF n = 0 THEN {<<>>}
    ELSE LET shorter == StringsUpTo(alphabet, n - 1)
         IN  shorter \cup {Append(s, ch) : s \in shorter, ch \in alphabet}

ResolverAlphabet == {"1", "a", "/", ":", "?", " "}

\* the identifiers of the resolver model
ResolverInputs == Identifiers \cup StringsUpTo(ResolverAlphabet, MaxLen)

\* output_path of a request: empty (None) or a caller-chosen directory
OutputPaths == {"", "out"}

\* Path("data/douyin/downloads/livestreams")
DefaultDir == "data/douyin/downloads/livestreams"

\* Path(dir).parts of the directories of the model
PathParts(dir) ==
    IF dir = DefaultDir THEN <<"data", "douyin", "downloads", "livestreams">>
    ELSE <<dir>>

\* the room id the platform reports in the payload for a queried id
RoomOf(id) == IF id = WebRid THEN RoomId ELSE id

\* the upstream status code that means live
LIVE == 2

\* dicts of stream variants, as sequences of <<label, url>>
EmptyMap == <<>>

LiveMaps == {EmptyMap, << <<"HD1", "live_hd1">> >>, << <<"SD2", "">> >>}

\* what a live-info lookup for `id` can return when it returns an object: the
\* fields download_stream reads of live_filter._to_dict() and live_filter
LivePayloads(id) ==
    [status : {None, Some(LIVE), Some(4)},
     room_id : {None, RoomOf(id)},
     m3u8_pull_url : LiveMaps]

\* outcomes of one awaited upstream lookup that yields an object
Raise == [kind |-> "raise"]

Empty == [kind |-> "empty"]

Payload(p) == [kind |-> "payload", value |-> p]

LiveOutcomes(id) == {Raise, Empty} \cup {Payload(p) : p \in LivePayloads(id)}

\* outcomes of WebCastIdFetcher.get_webcast_id: APIResponseError, another
\* exception, or a returned id (possibly empty)
FetcherOutcomes ==
    {[kind |-> "api_error"], Raise} \cup {Payload(id) : id \in {None, WebRid, RoomId}}

\* fetch_user_profile's room_id for the profile user: None when not streaming
ProfileRoomIds == {None, RoomId}

(***************************************************************************)
(* Pure helpers of LivestreamService                                       *)
(***************************************************************************)
\* dict.get(key): the value under key, None when absent
MapGet(map, key) ==
    LET hits == {i \in 1..Len(map) : map[i][1] = key}
    IN  IF hits = {} THEN None ELSE Some(map[MinOf(hits)][2])

PreferredOrder == <<"FULL_HD1", "HD1", "SD1", "SD2">>

\* a selector without the fallback to the labels outside the preferred order
SelectPreferredOnly(stream_map) ==
    LET preferred == {k \in 1..Len(PreferredOrder) :
                        /\ MapGet(stream_map, PreferredOrder[k]) # None
                        /\ MapGet(stream_map, PreferredOrder[k])[1] # ""}
    IN  IF preferred # {} THEN MapGet(stream_map, PreferredOrder[MinOf(preferred)])
        ELSE None

\* a selector that takes the first non-empty URL of the dict, whatever its label
SelectFirstPopulated(stream_map) ==
    LET populated == {i \in 1..Len(stream_map) : stream_map[i][2] # ""}
    IN  IF populated # {} THEN Some(stream_map[MinOf(populated)][2]) ELSE None

\* _select_stream_url: the first non-empty URL in the preferred order, else the
\* first non-empty URL of the dict in insertion order, else None
SelectStreamUrl(stream_map) ==
    LET preferred == {k \in 1..Len(PreferredOrder) :
                        /\ MapGet(stream_map, PreferredOrder[k]) # None
                        /\ MapGet(stream_map, PreferredOrder[k])[1] # ""}
        populated == {i \in 1..Len(stream_map) : stream_map[i][2] # ""}
    IN  IF preferred # {} THEN MapGet(stream_map, PreferredOrder[MinOf(preferred)])
        ELSE IF populated # {} THEN Some(stream_map[MinOf(populated)][2])
        ELSE None

\* the quality labels of variant maps: the four preferred ones and another
VariantLabels == {"FULL_HD1", "HD1", "SD1", "SD2", "OTHER"}

\* the URL the platform serves under a label
VariantUrl(label) ==
    CASE label = "FULL_HD1" -> "live_full_hd1"
      [] label = "HD1" -> "live_hd1"
      [] label = "SD1" -> "live_sd1"
      [] label = "SD2" -> "live_sd2"
      [] OTHER -> "live_other"

\* every dict of at most n entries, in every insertion order, each label
\* carrying its URL or an empty string
RECURSIVE StreamMapsUpTo(_)
StreamMapsUpTo(n) ==
    IF n = 0 THEN {EmptyMap}
    ELSE LET shorter == StreamMapsUpTo(n - 1)
         IN  shorter \cup
             {Append(m, <<l, u>>) :
                m \in {x \in shorter : Len(x) = n - 1},
                l \in VariantLabels, u \in {"", "url"}}

\* the dicts among them: no label twice, URLs as served
StreamMaps ==
    {[i \in 1..Len(m) |-> <<m[i][1], IF m[i][2] = "" THEN "" ELSE VariantUrl(m[i][1])>>] :
        m \in {x \in StreamMapsUpTo(MaxVariants) :
                    \A i, j \in 1..Len(x) : x[i][1] = x[j][1] => i = j}}

\* no call of the selector under way
NoSelection == [pc |-> "none", stream_map |-> EmptyMap, url |-> None]

\* _select_stream_url(stream_map) returns
SelectReturn ==
    /\ selection.pc = "call"
    /\ selection' = [selection EXCEPT !.pc = "returned",
                                       !.url = SelectStreamUrl(selection.stream_map)]
    /\ UNCHANGED <<calls, download_jobs, tasks, files, fs_dirs>>

\* UserService.get_user_info builds the UserResponse without room_data, so the
\* profile's room_data is always None
ProfileRoomData == None

\* _stream_map_from_room_data: no room_data gives empty maps and no status; a
\* parsed payload gives its HLS map and status
StreamMapFromRoomData(room_data) ==
    IF room_data = None
    THEN [stream_map |-> EmptyMap, status |-> None]
    ELSE [stream_map |-> room_data[1].stream_map, status |-> room_data[1].status]

\* the profile_room_info dict download_stream builds from a live profile
ProfileRoomInfo(room_id) ==
    LET parsed == StreamMapFromRoomData(ProfileRoomData)
    IN  [status |-> IF parsed.status # None THEN parsed.status
                    ELSE IF parsed.stream_map # EmptyMap THEN Some(LIVE) ELSE Some(0),
         raw_status |-> parsed.status,
         stream_map |-> parsed.stream_map,
         room_id |-> room_id]

\* output_dir / f"{room_id}_live.flv"
TargetFile(dir, room_id) == [dir |-> dir, name |-> room_id]

\* get_download_status(operation_id): the default directory's file when it is on
\* disk, else in progress when the id is a registry key, else not found
GetDownloadStatus(self, operation_id) ==
    IF TargetFile(DefaultDir, operation_id) \in files
    THEN [kind |-> "file", path |-> Some(TargetFile(DefaultDir, operation_id))]
    ELSE IF operation_id \in DOMAIN download_jobs[self]
    THEN [kind |-> "in_progress", path |-> None]
    ELSE [kind |-> "not_found", path |-> None]

(***************************************************************************)
(* Requests                                                                *)
(***************************************************************************)
IdleCall ==
    [pc |-> "idle", service |-> Shared,
     url |-> None, output_path |-> "", webcast_id |-> None,
     converted_id |-> None, profile_room_info |-> None,
     fetcher_calls |-> 0, profile_calls |-> 0,
     response |-> None, decision |-> None]

\* requests are numbered in the order they arrive
Arrives(c) ==
    /\ calls[c].pc = "idle"
    /\ \A b \in Calls : b < c => calls[b].pc # "idle"

\* a return of download_stream: (status, message); the message of a pending
\* return is the target file. The coroutine's locals end with it; the decision
\* it took stays on record.
Return(rec, status, error, path) ==
    [IdleCall EXCEPT !.pc = "done", !.decision = rec.decision,
                     !.response = Some([status |-> status, error |-> error,
                                        path |-> path])]

ReturnError(rec, error) == Return(rec, "error", error, None)

\* the url parts with the last segment taken without dropping trailing slashes
ParsedKeepSlash(normalized_url) ==
    LET p == urlparse(IF contains(normalized_url, <<":", "/", "/">>)
                      THEN normalized_url ELSE Https \o normalized_url)
        seg == IF p.path # <<>> THEN split_last_slash(p.path) ELSE <<>>
    IN  [host |-> lower(p.netloc), path |-> p.path,
         last_segment |-> split_first(split_first(seg, "?"), "#")]

\* lines 279-287: host, path and last path segment of the normalized url
Parsed(normalized_url) ==
    LET p == urlparse(IF contains(normalized_url, <<":", "/", "/">>)
                      THEN normalized_url ELSE Https \o normalized_url)
        seg == IF p.path # <<>> THEN split_last_slash(rstrip_slash(p.path)) ELSE <<>>
    IN  [host |-> lower(p.netloc), path |-> p.path,
         last_segment |-> split_first(split_first(seg, "?"), "#")]

\* lines 276-290: the webcast id taken from the identifier itself
DirectWebcastId(normalized_url) ==
    IF isdigit(normalized_url) THEN normalized_url
    ELSE IF isdigit(Parsed(normalized_url).last_segment)
    THEN Parsed(normalized_url).last_segment
    ELSE None

\* lines 344-350: unresolved and duplicate checks, then the room-info lookup
Resolved(rec) ==
    IF rec.webcast_id = None
    THEN ReturnError(rec, "Unable to resolve webcast id from provided URL")
    ELSE IF rec.webcast_id \in DOMAIN download_jobs[rec.service]
    THEN ReturnError(rec, "Already downloading this stream")
    ELSE [rec EXCEPT !.pc = "src1"]

\* lines 306-345: the profile lookup is awaited for an unresolved profile url
AfterFetcher(rec) ==
    LET p == Parsed(strip(rec.url))
        user_id == IF p.last_segment # <<>> THEN p.last_segment
                   ELSE IF p.path # <<>> THEN split_last_slash(rstrip_slash(p.path))
                   ELSE <<>>
    IN  IF rec.webcast_id = None /\ contains(p.host, DouyinCom)
           /\ startswith(p.path, UserPrefix)
        THEN IF user_id = <<>>
             THEN ReturnError(rec, "User identifier missing in profile URL")
             ELSE [rec EXCEPT !.pc = "profile"]
        ELSE Resolved(rec)

\* download_stream up to its first await (lines 268-292)
Begin(self, c, url, output_path) ==
    /\ Arrives(c)
    /\ LET rec == [calls[c] EXCEPT !.service = self, !.url = url,
                                   !.output_path = output_path]
           normalized_url == strip(url)
           direct == DirectWebcastId(normalized_url)
       IN  calls' = [calls EXCEPT ![c] =
                IF normalized_url = <<>>
                THEN ReturnError(rec, "Livestream URL is required")
                ELSE IF direct # None
                THEN AfterFetcher([rec EXCEPT !.webcast_id = direct])
                ELSE [rec EXCEPT !.pc = "fetcher"]]
    /\ UNCHANGED <<download_jobs, tasks, files, fs_dirs>>

\* WebCastIdFetcher.get_webcast_id(normalized_url) returns or raises (lines 293-304)
FetcherReturn(c, outcome) ==
    /\ calls[c].pc = "fetcher"
    /\ LET rec == [calls[c] EXCEPT
                      !.fetcher_calls = @ + 1,
                      !.webcast_id = IF outcome.kind = "payload"
                                     THEN outcome.value ELSE None]
       IN  calls' = [calls EXCEPT ![c] = AfterFetcher(rec)]
    /\ UNCHANGED <<download_jobs, tasks, files, fs_dirs>>

\* the profile lookup's return without the check that the user is live
ProfileReturnNoLiveCheck(c, raised, room_id) ==
    /\ calls[c].pc = "profile"
    /\ LET rec == [calls[c] EXCEPT !.profile_calls = @ + 1]
       IN  calls' = [calls EXCEPT ![c] =
                IF raised
                THEN ReturnError(rec, "Failed to resolve webcast id from profile")
                ELSE Resolved([rec EXCEPT
                        !.webcast_id = room_id,
                        !.profile_room_info = Some(ProfileRoomInfo(room_id))])]
    /\ UNCHANGED <<download_jobs, tasks, files, fs_dirs>>

\* user_service.get_user_info(user_id) returns or raises (lines 313-342)
ProfileReturn(c, raised, room_id) ==
    /\ calls[c].pc = "profile"
    /\ LET rec == [calls[c] EXCEPT !.profile_calls = @ + 1]
       IN  calls' = [calls EXCEPT ![c] =
                IF raised
                THEN ReturnError(rec, "Failed to resolve webcast id from profile")
                ELSE IF room_id = None
                THEN ReturnError(rec, "User is not currently livestreaming")
                ELSE Resolved([rec EXCEPT
                        !.webcast_id = room_id,
                        !.profile_room_info = Some(ProfileRoomInfo(room_id))])]
    /\ UNCHANGED <<download_jobs, tasks, files, fs_dirs>>

\* dict insert: download_jobs[key] = task
JobsPut(jobs, key, task) ==
    [k \in DOMAIN jobs \cup {key} |-> IF k = key THEN task ELSE jobs[k]]

\* download_jobs.pop(job_id, None)
JobsPop(jobs, job_id) == [k \in DOMAIN jobs \ {job_id} |-> jobs[k]]

\* a status check that rejects only the ended status
IsLiveStatusLoose(status_code) == status_code # Some(4)

\* the status check of line 360
IsLiveStatus(status_code) == status_code = Some(LIVE)

\* the registry key of line 357 and 420
JobKey(room_info, webcast_id) ==
    IF room_info.room_id # None THEN room_info.room_id ELSE webcast_id

\* lines 351-421, run without suspension once _load_live_filter has returned
\* `live` (None, or the object a source returned); output_dir.mkdir succeeds or
\* raises, which the outer handler turns into an error return. The decision
\* field records where each value the code decides on was taken from.
Decide(c, live) ==
    LET rec == calls[c]
        profile == rec.profile_room_info
        room_info == IF live # None THEN live[1] ELSE profile[1]
        info_src == IF live # None THEN "live" ELSE "profile"
        room_id == JobKey(room_info, rec.webcast_id)
        room_src == IF room_info.room_id # None THEN info_src
                    ELSE IF profile # None THEN "profile" ELSE "identifier"
        status_code == room_info.status
        from_profile == profile # None /\ profile[1].stream_map # EmptyMap
        stream_map == IF from_profile THEN profile[1].stream_map
                      ELSE IF live # None THEN live[1].m3u8_pull_url
                      ELSE EmptyMap
        map_src == IF from_profile THEN "profile"
                   ELSE IF live # None THEN "live" ELSE "none"
        \* the record of a return before (FALSE) or after (TRUE) lines 365-374
        Decided(with_map) ==
            [rec EXCEPT !.decision = Some(
                [info_src |-> info_src,
                 upstream_status |-> IF live # None THEN room_info.status
                                     ELSE room_info.raw_status,
                 room_src |-> room_src,
                 map_src |-> IF with_map THEN map_src ELSE "none"])]
        output_dir == IF rec.output_path # "" THEN rec.output_path ELSE DefaultDir
        quiet == UNCHANGED <<download_jobs, tasks, files, fs_dirs>>
    IN  IF live = None /\ profile = None
        THEN /\ calls' = [calls EXCEPT ![c] =
                    ReturnError(rec, "Unable to fetch livestream metadata")]
             /\ quiet
        ELSE IF ~IsLiveStatus(status_code)
        THEN /\ calls' = [calls EXCEPT ![c] =
                    ReturnError(Decided(FALSE), "User is not currently streaming")]
             /\ quiet
        ELSE IF stream_map = EmptyMap
        THEN /\ calls' = [calls EXCEPT ![c] =
                    ReturnError(Decided(TRUE), "No live stream available for this user")]
             /\ quiet
        ELSE IF SelectStreamUrl(stream_map) = None
        THEN /\ calls' = [calls EXCEPT ![c] =
                    ReturnError(Decided(TRUE), "No suitable quality stream found")]
             /\ quiet
        ELSE \/ /\ calls' = [calls EXCEPT ![c] =
                        ReturnError(Decided(TRUE), "mkdir failed")]
                /\ quiet
             \/ /\ calls' = [calls EXCEPT ![c] =
                        Return(Decided(TRUE), "pending", "",
                               Some(TargetFile(output_dir, room_id)))]
                /\ tasks' = [tasks EXCEPT ![c] = Some(
                        [job_id |-> room_id, output_dir |-> output_dir,
                         state |-> "running", checked_key |-> rec.webcast_id,
                         service |-> rec.service])]
                /\ download_jobs' = [download_jobs EXCEPT
                        ![rec.service] = JobsPut(@, room_id, c)]
                /\ fs_dirs' = fs_dirs \cup {output_dir}
                /\ UNCHANGED files

\* _load_live_filter, primary attempt: fetch_user_live_videos(webcast_id)
\* (lines 69-74); an object ends the lookup, a raise or nothing moves on
Source1Return(c, outcome) ==
    /\ calls[c].pc = "src1"
    /\ IF outcome.kind = "payload"
       THEN Decide(c, Some(outcome.value))
       ELSE /\ calls' = [calls EXCEPT ![c].pc = "src2conv", ![c].url = None,
                                      ![c].fetcher_calls = 0, ![c].profile_calls = 0]
            /\ UNCHANGED <<download_jobs, tasks, files, fs_dirs>>

\* fallback: WebCastIdFetcher.get_webcast_id of the live url (lines 77-81); a
\* different, non-empty id is looked up next, anything else skips to the last source
Source2Convert(c, outcome) ==
    /\ calls[c].pc = "src2conv"
    /\ calls' = [calls EXCEPT ![c] =
            IF /\ outcome.kind = "payload"
               /\ outcome.value # None
               /\ outcome.value # calls[c].webcast_id
            THEN [@ EXCEPT !.pc = "src2fetch", !.converted_id = outcome.value]
            ELSE [@ EXCEPT !.pc = "src3"]]
    /\ UNCHANGED <<download_jobs, tasks, files, fs_dirs>>

\* fallback: fetch_user_live_videos(converted_id) (lines 82-92)
Source2Fetch(c, outcome) ==
    /\ calls[c].pc = "src2fetch"
    /\ IF outcome.kind = "payload"
       THEN Decide(c, Some(outcome.value))
       ELSE /\ calls' = [calls EXCEPT ![c].pc = "src3", ![c].converted_id = None]
            /\ UNCHANGED <<download_jobs, tasks, files, fs_dirs>>

\* final fallback: fetch_user_live_videos_by_room_id(webcast_id) (lines 95-105);
\* whatever it returns is the result, None when it raises
Source3Return(c, outcome) ==
    /\ calls[c].pc = "src3"
    /\ Decide(c, IF outcome.kind = "payload" THEN Some(outcome.value) ELSE None)

\* the downloader of a running task writes its output file (create_stream_tasks,
\* lines 436-439)
TaskWrite(c) ==
    /\ tasks[c] # None
    /\ tasks[c][1].state = "running"
    /\ files' = files \cup {TargetFile(tasks[c][1].output_dir, tasks[c][1].job_id)}
    /\ UNCHANGED <<calls, download_jobs, tasks, fs_dirs>>

TaskOutcomes == {"completed", "failed", "cancelled"}

\* _run_stream_download ends: normally, by an exception that is logged, or by
\* cancellation; the finally clause pops the job id (lines 440-446). Nothing
\* is kept of a failure but the log line, so both abnormal ends leave "failed".
TaskEnd(c, outcome) ==
    /\ tasks[c] # None
    /\ tasks[c][1].state = "running"
    /\ tasks' = [tasks EXCEPT ![c] = Some([@[1] EXCEPT !.state =
                    IF outcome = "completed" THEN "completed" ELSE "failed"])]
    /\ download_jobs' = [download_jobs EXCEPT
            ![tasks[c][1].service] = JobsPop(@, tasks[c][1].job_id)]
    /\ UNCHANGED <<calls, files, fs_dirs>>

\* a status route without the clause that turns NotImplementedError into
\* DownloadError: the catch-all handler answers 500
RouterStatusCodeUnmapped(kind) == IF kind = "not_found" THEN 500 ELSE 200

\* the status route (routers/livestreams.py, lines 206-222): a result is
\* answered 200 with status "success", NotImplementedError is turned into
\* DownloadError and answered 404
RouterStatusCode(kind) == IF kind = "not_found" THEN 404 ELSE 200

\* the ids status requests ask for
OperationIds == {WebRid, RoomId}

\* a request to get_download_status(operation_id) (lines 448-467); it has no
\* await, so it is one step
StatusRequest(self, c, operation_id) ==
    /\ Arrives(c)
    /\ LET st == GetDownloadStatus(self, operation_id)
       IN  calls' = [calls EXCEPT ![c] =
                [@ EXCEPT !.pc = "done",
                          !.response = Some([status |-> st.kind, error |-> "",
                                             path |-> st.path,
                                             operation_id |-> operation_id,
                                             http |-> RouterStatusCode(st.kind)])]]
    /\ UNCHANGED <<download_jobs, tasks, files, fs_dirs>>

(***************************************************************************)
(* UserService content downloads (src/src/dyvine/services/users.py):       *)
(* start_download, get_download_status and the background coroutine        *)
(* _process_download, one step per stretch of code between two awaits.     *)
(***************************************************************************)
MaxTasks == 2       \* start_download calls over the life of the service
MaxPosts == 2       \* largest aweme_count a profile reports
MaxBatch == 2       \* most posts on one page of fetch_user_post_videos
MaxPages == 2       \* pages with posts one task is given

TaskIds == 1..MaxTasks

\* the users whose content is downloaded; a user's nickname names its directory
Nicknames == {"u", "v"}

\* max_items of the download route: Query(None, gt=0)
ItemLimits == {None, Some(1)}

DictPut(d, k, v) == [x \in DOMAIN d \cup {k} |-> IF x = k THEN v ELSE d[x]]

DictPop(d, k) == [x \in DOMAIN d \ {k} |-> d[x]]

\* the locals of _process_download; pc "none" before the task is created
NoWorker ==
    [pc |-> "none", total_posts |-> 0, downloaded_count |-> 0,
     has_more |-> FALSE, queue |-> {}, pages |-> 0]

\* class attribute _active_downloads = {} and no temp_downloads directory
UsersIdle ==
    /\ active_downloads = [k \in {} |-> 0]
    /\ workers = [t \in TaskIds |-> NoWorker]
    /\ temp_dir = FALSE
    /\ temp_files = {}
    /\ user_poll = None

\* the task dict start_download stores; total_items, downloaded_items and
\* error are keys it does not set
NewTask(user_id, max_items) ==
    [user_id |-> user_id, status |-> "pending", progress |-> 0,
     max_items |-> max_items, total_items |-> None, downloaded_items |-> None,
     error |-> None]

\* str(uuid.uuid4()): an id no task has had
FreshTaskId == MinOf({t \in TaskIds : workers[t].pc = "none"})

\* start_download: registers the task and creates its background task; it has
\* no await, so it is one step
StartDownload(user_id, max_items) ==
    /\ \E t \in TaskIds : workers[t].pc = "none"
    /\ active_downloads' = DictPut(active_downloads, FreshTaskId, NewTask(user_id, max_items))
    /\ workers' = [workers EXCEPT ![FreshTaskId] = [NoWorker EXCEPT !.pc = "scheduled"]]
    /\ UNCHANGED <<temp_dir, temp_files, user_poll>>

\* get_download_status without the membership test: an unknown id is answered
\* as a pending task
UserGetDownloadStatusDefaulted(task_id) ==
    IF task_id \notin DOMAIN active_downloads
    THEN [kind |-> "ok", task_id |-> task_id, status |-> "pending", progress |-> 0,
          total_items |-> None, downloaded_items |-> None, error |-> None]
    ELSE LET task == active_downloads[task_id]
         IN  [kind |-> "ok", task_id |-> task_id, status |-> task.status,
              progress |-> task.progress, total_items |-> task.total_items,
              downloaded_items |-> task.downloaded_items, error |-> task.error]

\* get_download_status: DownloadError for an id that is not a key of the
\* registry, else the task's fields
UserGetDownloadStatus(task_id) ==
    IF task_id \notin DOMAIN active_downloads
    THEN [kind |-> "DownloadError", task_id |-> task_id, status |-> "", progress |-> 0,
          total_items |-> None, downloaded_items |-> None, error |-> None]
    ELSE LET task == active_downloads[task_id]
         IN  [kind |-> "ok", task_id |-> task_id, status |-> task.status,
              progress |-> task.progress, total_items |-> task.total_items,
              downloaded_items |-> task.downloaded_items, error |-> task.error]

\* a call of get_download_status; it has no await
UserStatusRequest(task_id) ==
    /\ user_poll' = Some(UserGetDownloadStatus(task_id))
    /\ UNCHANGED <<active_downloads, workers, temp_dir, temp_files>>

\* (downloaded_count / total_posts) * 100, in whole percent
Percent(downloaded_count, total_posts) == (downloaded_count * 100) \div total_posts

\* the assignments of one step of _process_download that goes on to an await
Commit(t, task, w, fs, dir) ==
    /\ active_downloads' = [active_downloads EXCEPT ![t] = task]
    /\ workers' = [workers EXCEPT ![t] = w]
    /\ temp_files' = fs
    /\ temp_dir' = dir
    /\ UNCHANGED user_poll

\* the finally clause up to its sleep: if temp_downloads exists every file
\* beneath it is unlinked, then the directories are removed, which an
\* OSError (logged) may cut short
End(t, task, fs, dir, removed) ==
    Commit(t, task, [NoWorker EXCEPT !.pc = "retain"],
           IF dir THEN {} ELSE fs, dir /\ ~removed)

\* the except clause
Failed(task, e) == [task EXCEPT !.status = "failed", !.error = Some(e)]

\* the verification after the loop
Verified(task, w) ==
    IF Percent(w.downloaded_count, w.total_posts) >= 100
    THEN [task EXCEPT !.status = "completed", !.progress = 100]
    ELSE [task EXCEPT !.status = "partial", !.error = Some("Only downloaded"),
                      !.progress = Percent(w.downloaded_count, w.total_posts)]

\* a task without the assignment of "running"
ProcessStartKeepsPending(t) ==
    /\ workers[t].pc = "scheduled"
    /\ Commit(t, [active_downloads[t] EXCEPT !.total_items = Some(0),
                                             !.downloaded_items = Some(0)],
              [workers[t] EXCEPT !.pc = "profile"], temp_files, TRUE)

\* the background task starts: status "running", temp_downloads is created,
\* the counters are zeroed, fetch_user_profile is awaited
ProcessStart(t) ==
    /\ workers[t].pc = "scheduled"
    /\ Commit(t, [active_downloads[t] EXCEPT !.status = "running",
                                             !.total_items = Some(0),
                                             !.downloaded_items = Some(0)],
              [workers[t] EXCEPT !.pc = "profile"], temp_files, TRUE)

\* what fetch_user_profile gives: an exception, a profile without nickname, or
\* a profile with its aweme_count
ProfileOutcomes ==
    {[kind |-> "raise", aweme_count |-> 0], [kind |-> "missing", aweme_count |-> 0]}
        \cup {[kind |-> "profile", aweme_count |-> n] : n \in 0..MaxPosts}

\* the while condition
LoopGoesOn(task, w) ==
    w.has_more /\ (task.max_items = None \/ w.downloaded_count < task.max_items[1])

\* fetch_user_profile returns
UserProfileReturn(t, outcome, removed) ==
    /\ workers[t].pc = "profile"
    /\ LET task == active_downloads[t]
           w == [workers[t] EXCEPT !.pc = "page", !.total_posts = outcome.aweme_count,
                                   !.has_more = TRUE,
                                   !.downloaded_count = 0]
           counted == [task EXCEPT !.total_items = Some(outcome.aweme_count)]
       IN  CASE outcome.kind = "raise" ->
                    End(t, Failed(task, "fetch_user_profile"), temp_files, temp_dir, removed)
             [] outcome.kind = "missing" ->
                    End(t, Failed(task, "not found"), temp_files, temp_dir, removed)
             [] outcome.kind = "profile" /\ outcome.aweme_count = 0 ->
                    End(t, [task EXCEPT !.status = "completed", !.progress = 100],
                        temp_files, temp_dir, removed)
             [] outcome.kind = "profile" /\ outcome.aweme_count > 0 /\ ~temp_dir ->
                    \* user_dir.mkdir raises FileNotFoundError
                    End(t, Failed(counted, "mkdir"), temp_files, temp_dir, removed)
             [] OTHER ->
                    IF LoopGoesOn(counted, w)
                    THEN Commit(t, counted, w, temp_files, temp_dir)
                    ELSE End(t, Verified(counted, w), temp_files, temp_dir, removed)

\* what the page iterator gives: an exception, its end, a page without posts,
\* or a page of posts with its cursor and has_more
PageOutcomes ==
    {[kind |-> k, size |-> 0, moved |-> FALSE, has_more |-> FALSE] :
        k \in {"raise", "exhausted", "no_aweme"}}
        \cup {[kind |-> "page", size |-> n, moved |-> m, has_more |-> h] :
                n \in 1..MaxBatch, m \in BOOLEAN, h \in BOOLEAN}

\* the cursor update at the end of a page (lines 371-380), whose operands are
\* all known when the page arrives: a page whose max_cursor differs from the
\* one asked for gives its own has_more; otherwise there is more exactly when
\* fewer posts than the profile counts have been seen
NextHasMore(page, downloaded_count, total_posts) ==
    IF page.moved THEN page.has_more ELSE downloaded_count < total_posts

\* the next page arrives (or the iterator ends, and the while condition
\* decides whether a new one is opened)
UserPageReturn(t, outcome, removed) ==
    /\ workers[t].pc = "page"
    /\ outcome.kind = "page" => workers[t].pages < MaxPages
    /\ LET task == active_downloads[t]
           w == workers[t]
           count == w.downloaded_count + outcome.size
       IN  CASE outcome.kind = "raise" ->
                    End(t, Failed(task, "fetch_user_post_videos"), temp_files, temp_dir, removed)
             [] outcome.kind = "exhausted" ->
                    IF LoopGoesOn(task, w)
                    THEN Commit(t, task, w, temp_files, temp_dir)
                    ELSE End(t, Verified(task, w), temp_files, temp_dir, removed)
             [] outcome.kind = "no_aweme" ->
                    End(t, Verified(task, w), temp_files, temp_dir, removed)
             [] OTHER ->
                    Commit(t, [task EXCEPT !.downloaded_items = Some(count),
                                           !.progress = Percent(count, w.total_posts)],
                           [w EXCEPT !.pc = "download", !.downloaded_count = count,
                                     !.has_more = NextHasMore(outcome, count, w.total_posts),
                                     !.pages = @ + 1],
                           temp_files, temp_dir)

\* the file create_download_tasks writes for the page of task t
PageFile(t) ==
    [dir |-> active_downloads[t].user_id, by |-> t]

\* user_dir.glob("**/*"): every file beneath the directory of the task's user
Glob(fs, user_id) == {f \in fs : f.dir = user_id}

\* create_download_tasks returns: the page's file is in the user's directory
\* and the upload loop starts over the directory's files
UserDownloadReturn(t, outcome, removed) ==
    /\ workers[t].pc = "download"
    /\ LET task == active_downloads[t]
           fs == temp_files \cup {PageFile(t)}
       IN  IF outcome = "raise"
           THEN End(t, Failed(task, "create_download_tasks"), temp_files, temp_dir, removed)
           ELSE Commit(t, task,
                       [workers[t] EXCEPT !.pc = "upload", !.queue = Glob(fs, task.user_id)],
                       fs, TRUE)

\* the cursor update and the max_items test at the end of a page
PageTail(task, w) ==
    LET reached == task.max_items # None /\ task.downloaded_items[1] >= task.max_items[1]
    IN  [w EXCEPT !.pc = IF reached THEN "break" ELSE "page",
                  !.has_more = @ /\ ~reached, !.queue = {}]

\* one round of the upload loop: a file that is still there is uploaded and,
\* if upload_file did not raise, unlinked; after the last file the page ends
UserUploadReturn(t, f, outcome, removed) ==
    /\ workers[t].pc = "upload"
    /\ f \in workers[t].queue
    /\ LET task == active_downloads[t]
           done == f \in temp_files /\ outcome = "ok"
           fs == IF done THEN temp_files \ {f} ELSE temp_files
           w == [workers[t] EXCEPT !.queue = @ \ {f}]
           tail == PageTail(task, w)
       IN  IF w.queue # {}
           THEN Commit(t, task, w, fs, temp_dir)
           ELSE IF tail.pc = "break"
                THEN End(t, Verified(task, tail), fs, temp_dir, removed)
                ELSE Commit(t, task, tail, fs, temp_dir)

\* the finally clause after its sleep of an hour: the task leaves the registry
UserEvict(t) ==
    /\ workers[t].pc = "retain"
    /\ active_downloads' = DictPop(active_downloads, t)
    /\ workers' = [workers EXCEPT ![t] = [NoWorker EXCEPT !.pc = "gone"]]
    /\ UNCHANGED <<temp_dir, temp_files, user_poll>>

\* the steps of the background task t
ProcessSteps(t) ==
    \/ ProcessStart(t)
    \/ \E removed \in BOOLEAN :
        \/ \E outcome \in ProfileOutcomes : UserProfileReturn(t, outcome, removed)
        \/ \E outcome \in PageOutcomes : UserPageReturn(t, outcome, removed)
        \/ \E outcome \in {"ok", "raise"} : UserDownloadReturn(t, outcome, removed)
        \/ \E f \in workers[t].queue, outcome \in {"ok", "raise"} :
                UserUploadReturn(t, f, outcome, removed)
    \/ UserEvict(t)

(***************************************************************************)
(* The HTTP application (src/src/dyvine/main.py): request_middleware with  *)
(* the shared ContextLogger, the /health route, the routes GET /users/{id}  *)
(* and GET /posts/{id} with their error mapping, and R2StorageService as    *)
(* built from the same settings.                                           *)
(***************************************************************************)
MaxRequests == 2    \* HTTP requests in flight together

Requests == 1..MaxRequests

\* 1024 * 1024 * 1024, the resident memory above which /health degrades
GiB == 1073741824

Rep(c, n) == [i \in 1..n |-> c]

\* str.replace(sub, ""): every occurrence of sub removed, left to right
RECURSIVE remove_sub(_, _)
remove_sub(s, sub) ==
    LET i == find(s, sub, 1)
    IN  IF i = 0 THEN s
        ELSE SubSeq(s, 1, i - 1) \o remove_sub(SubSeq(s, i + Len(sub), Len(s)), sub)

\* str.strip("{}")
strip_braces(s) ==
    LET keep == {i \in 1..Len(s) : s[i] \notin {"{", "}"}}
    IN  IF keep = {} THEN <<>> ELSE SubSeq(s, MinOf(keep), MaxOf(keep))

\* the hex digits uuid.UUID(s) reads: "urn:" and "uuid:" removed, braces
\* stripped, hyphens removed
UuidHex(s) ==
    remove_sub(strip_braces(remove_sub(remove_sub(s, <<"u", "r", "n", ":">>),
                                       <<"u", "u", "i", "d", ":">>)), <<"-">>)

\* uuid.UUID(s) does not raise ValueError: 32 hexadecimal digits
UuidParses(s) ==
    /\ Len(UuidHex(s)) = 32
    /\ \A i \in 1..32 : UuidHex(s)[i] \in
            Digits \cup {"a", "b", "c", "d", "e", "f", "A", "B", "C", "D", "E", "F"}

\* str(uuid.UUID(s)): the digits in lower case, grouped 8-4-4-4-12
UuidStr(s) ==
    LET h == lower(UuidHex(s))
    IN  SubSeq(h, 1, 8) \o <<"-">> \o SubSeq(h, 9, 12) \o <<"-">> \o SubSeq(h, 13, 16)
            \o <<"-">> \o SubSeq(h, 17, 20) \o <<"-">> \o SubSeq(h, 21, 32)

\* str(uuid.uuid4()) in request r: a canonical version-4 UUID of its own
GeneratedUuid(r) ==
    Rep("0", 8) \o <<"-">> \o Rep("0", 4) \o <<"-", "4">> \o Rep("0", 3)
        \o <<"-", "8">> \o Rep("0", 3) \o <<"-">> \o Rep("0", 11) \o <<CHOOSE d \in Digits : d = ToString(r)>>

\* a UUID a client sends, in canonical form
ClientUuid ==
    Rep("0", 7) \o <<"a", "-">> \o Rep("0", 4) \o <<"-", "4">> \o Rep("0", 3)
        \o <<"-", "8">> \o Rep("0", 3) \o <<"-">> \o Rep("0", 11) \o <<"f">>

upper(s) ==
    [i \in 1..Len(s) |->
        IF \E k \in 1..26 : LowerCase[k] = s[i]
        THEN UpperCase[CHOOSE k \in 1..26 : LowerCase[k] = s[i]] ELSE s[i]]

\* the X-Request-ID headers clients send: none, an empty one, one that is no
\* UUID, and one UUID in the spellings uuid.UUID accepts
RequestIdHeaders ==
    {None, Some(<<>>), Some(<<"i", "n", "v", "a", "l", "i", "d">>),
     Some(ClientUuid), Some(upper(ClientUuid)), Some(remove_sub(ClientUuid, <<"-">>)),
     Some(<<"{">> \o ClientUuid \o <<"}">>),
     Some(<<"u", "r", "n", ":", "u", "u", "i", "d", ":">> \o ClientUuid)}

\* the correlation id of a request that uses the client's header whenever
\* there is one
CorrelationIdTrusting(r, client_request_id) ==
    IF client_request_id # None /\ client_request_id[1] # <<>>
    THEN client_request_id[1]
    ELSE GeneratedUuid(r)

\* the correlation id request_middleware determines (lines 276-287)
CorrelationId(r, client_request_id) ==
    IF client_request_id # None /\ client_request_id[1] # <<>>
    THEN IF UuidParses(client_request_id[1])
         THEN UuidStr(client_request_id[1])
         ELSE GeneratedUuid(r)
    ELSE GeneratedUuid(r)

\* the settings: the Douyin cookie and the five R2 fields, each empty or set
R2Fields == {"account_id", "access_key_id", "secret_access_key", "bucket_name", "endpoint"}

AllSettings == {[cookie |-> c, r2 |-> f] : c \in {"", "cookie"}, f \in [R2Fields -> {"", "set"}]}

\* every setting set
FullSettings == [cookie |-> "cookie", r2 |-> [f \in R2Fields |-> "set"]]

\* process.memory_info().rss around the threshold of /health
RssValues == {GiB - 1, GiB, GiB + 1}

\* R2Settings.is_configured: all of the four fields it lists
is_configured(r2) ==
    /\ r2["account_id"] # ""
    /\ r2["access_key_id"] # ""
    /\ r2["secret_access_key"] # ""
    /\ r2["bucket_name"] # ""

\* /health whose memory test is >= instead of >
HealthStatusAtThreshold(s, memory) ==
    LET health_status == IF s.cookie = "" THEN "unhealthy"
                         ELSE IF ~is_configured(s.r2) THEN "degraded"
                         ELSE "healthy"
    IN  IF memory >= GiB /\ health_status # "unhealthy" THEN "degraded" ELSE health_status

\* health_status of health_check (lines 490-498)
HealthStatus(s, memory) ==
    LET health_status == IF s.cookie = "" THEN "unhealthy"
                         ELSE IF ~is_configured(s.r2) THEN "degraded"
                         ELSE "healthy"
    IN  IF memory > GiB /\ health_status # "unhealthy" THEN "degraded" ELSE health_status

\* health_check: the body and the status code of the JSONResponse
HealthCheck(s, memory, correlation_id) ==
    [status_code |-> IF HealthStatus(s, memory) = "healthy" THEN 200 ELSE 503,
     body |-> Some([status |-> HealthStatus(s, memory),
                    douyin_api |-> IF s.cookie # "" THEN "configured"
                                   ELSE "missing_credentials",
                    r2_storage |-> IF is_configured(s.r2) THEN "available"
                                   ELSE "not_configured",
                    correlation_id |-> correlation_id])]

\* the exception classes: core/exceptions.py, services/users.py, services/posts.py
Parent ==
    [c \in {"core.DyvineError", "users.UserServiceError", "posts.PostServiceError"} |-> "Exception"]
    @@ [c \in {"core.NotFoundError", "core.ServiceError", "core.ValidationError",
               "core.AuthenticationError", "core.RateLimitError"} |-> "core.DyvineError"]
    @@ [c \in {"core.UserNotFoundError", "core.PostNotFoundError",
               "core.LivestreamNotFoundError"} |-> "core.NotFoundError"]
    @@ [c \in {"core.DownloadError", "core.StorageError"} |-> "core.ServiceError"]
    @@ [c \in {"users.UserNotFoundError", "users.DownloadError"} |-> "users.UserServiceError"]
    @@ [c \in {"posts.PostNotFoundError", "posts.UserNotFoundError",
               "posts.DownloadError"} |-> "posts.PostServiceError"]
    @@ [c \in {"upstream.Error"} |-> "Exception"]

ExceptionClasses == DOMAIN Parent \cup {"Exception"}

\* isinstance(an instance of class c, cls)
RECURSIVE IsInstance(_, _)
IsInstance(c, cls) ==
    \/ c = cls
    \/ c \in DOMAIN Parent /\ IsInstance(Parent[c], cls)

\* the classes of core/exceptions.py that are NotFoundError
NotFoundErrors == {c \in ExceptionClasses : IsInstance(c, "core.NotFoundError")}

\* default_mapping of handle_errors
default_mapping ==
    [c \in {"core.NotFoundError"} |-> 404] @@ [c \in {"core.ValidationError"} |-> 400]
    @@ [c \in {"core.AuthenticationError"} |-> 401] @@ [c \in {"core.RateLimitError"} |-> 429]
    @@ [c \in {"core.ServiceError"} |-> 500]

\* the wrapper of handle_errors around a handler that raised an instance of
\* class c: default_mapping.get(type(e), 400) for a DyvineError, 500 otherwise
handle_errors(c) ==
    IF IsInstance(c, "core.DyvineError")
    THEN IF c \in DOMAIN default_mapping THEN default_mapping[c] ELSE 400
    ELSE 500

\* what an upstream lookup gives a route's service: the resource, no
\* resource, or an exception
LookupOutcomes == {"found", "missing", "raise"}

\* UserService.get_user_info (services/users.py 132-163): the class it
\* raises, or None when it returns the user
get_user_info(outcome) ==
    LET raised == CASE outcome = "raise" -> Some("upstream.Error")
                    [] outcome = "missing" -> Some("users.UserNotFoundError")
                    [] OTHER -> None
    IN  IF raised # None /\ IsInstance(raised[1], "Exception")
        THEN Some("users.UserServiceError")
        ELSE raised

\* the route get_user (routers/users.py 141-152)
get_user(outcome) ==
    LET raised == get_user_info(outcome)
    IN  IF raised = None THEN 200
        ELSE IF IsInstance(raised[1], "users.UserNotFoundError") THEN 404
        ELSE 500

\* PostService.get_post_detail (services/posts.py 111-148)
get_post_detail(outcome) ==
    LET raised == CASE outcome = "raise" -> Some("upstream.Error")
                    [] outcome = "missing" -> Some("posts.PostNotFoundError")
                    [] OTHER -> None
    IN  IF raised = None THEN None
        ELSE IF IsInstance(raised[1], "posts.PostNotFoundError") THEN raised
        ELSE Some("posts.PostServiceError")

\* the route get_post (routers/posts.py 78-144), wrapped by handle_errors
get_post(outcome) ==
    LET raised == get_post_detail(outcome)
    IN  IF raised = None THEN 200 ELSE handle_errors(raised[1])

Routes == {"health", "user", "post"}

\* a request before it arrives
NoRequest ==
    [pc |-> "none", route |-> "", x_request_id |-> None, correlation_id |-> <<>>,
     outcome |-> "", status_code |-> 0, body |-> None, x_correlation_id |-> None]

\* R2StorageService not yet constructed
NoStorage == [built |-> FALSE, client |-> FALSE, upload |-> "none"]

\* the application before any request; app.state.logger has no correlation id
HttpIdle ==
    /\ settings = FullSettings
    /\ rss = MinOf(RssValues)
    /\ requests = [r \in Requests |-> NoRequest]
    /\ logger_correlation_id = None
    /\ log = {}
    /\ storage = NoStorage

\* ContextLogger._log: the entry carries the logger's correlation id if it has one
LogEntry(r, msg) == [request |-> r, msg |-> msg, correlation_id |-> logger_correlation_id']

\* request_middleware up to call_next (lines 276-313): the correlation id is
\* determined and put on the shared logger, "HTTP request initiated" is logged
MiddlewareEnter(r, client_request_id, route) ==
    /\ requests[r].pc = "none"
    /\ requests' = [requests EXCEPT ![r] =
            [@ EXCEPT !.pc = "route", !.route = route,
                      !.x_request_id = client_request_id,
                      !.correlation_id = CorrelationId(r, client_request_id)]]
    /\ logger_correlation_id' = Some(CorrelationId(r, client_request_id))
    /\ log' = log \cup {LogEntry(r, "HTTP request initiated")}
    /\ UNCHANGED <<settings, rss, storage>>

\* the route handler of request r produces its response
RouteReturn(r, outcome) ==
    /\ requests[r].pc = "route"
    /\ requests[r].route = "health" => outcome = "found"
    /\ LET response ==
            CASE requests[r].route = "health" ->
                    HealthCheck(settings, rss, requests[r].correlation_id)
              [] requests[r].route = "user" ->
                    [status_code |-> get_user(outcome), body |-> None]
              [] requests[r].route = "post" ->
                    [status_code |-> get_post(outcome), body |-> None]
       IN  requests' = [requests EXCEPT ![r] =
                [@ EXCEPT !.pc = "respond", !.outcome = outcome,
                          !.status_code = response.status_code,
                          !.body = response.body]]
    /\ UNCHANGED <<settings, rss, logger_correlation_id, log, storage>>

\* request_middleware after call_next (lines 316-334): "HTTP request
\* completed" is logged, the header is set, the logger's id is cleared
MiddlewareExit(r) ==
    /\ requests[r].pc = "respond"
    /\ log' = log \cup {[request |-> r, msg |-> "HTTP request completed",
                         correlation_id |-> logger_correlation_id]}
    /\ requests' = [requests EXCEPT ![r] =
            [@ EXCEPT !.pc = "done", !.x_correlation_id = Some(requests[r].correlation_id)]]
    /\ logger_correlation_id' = None
    /\ UNCHANGED <<settings, rss, storage>>

\* R2StorageService.__init__ (services/storage.py 85-118): a client only when
\* the endpoint and the four other fields are all set
R2StorageServiceInit ==
    /\ ~storage.built
    /\ storage' = [storage EXCEPT !.built = TRUE,
                                  !.client = \A f \in R2Fields : settings.r2[f] # ""]
    /\ UNCHANGED <<settings, rss, requests, logger_correlation_id, log>>

\* upload_file (lines 294-297): StorageError "disabled" without a client
UploadFile(outcome) ==
    /\ storage.built
    /\ storage.upload = "none"
    /\ storage' = [storage EXCEPT !.upload = IF storage.client THEN outcome ELSE "disabled"]
    /\ UNCHANGED <<settings, rss, requests, logger_correlation_id, log>>

(***************************************************************************)
(* PostService.download_all_user_posts (src/src/dyvine/services/posts.py): *)
(* the pagination loop.                                                    *)
(***************************************************************************)
MaxCursor == 2       \* largest cursor a caller passes or a page reports
MaxIterations == 4   \* iterations of the loop that are followed

\* the locals of one call; pc "idle" before the call
NoPaging == [pc |-> "idle", current_cursor |-> 0, iterations |-> 0, posts |-> None]

\* PostService.download_all_user_posts not called
PagingIdle == paging = NoPaging

\* what fetch_user_profile gives download_all_user_posts
PagingProfiles == {"profile", "missing", "raise"}

\* the call up to the first fetch (lines 239-274): no profile raises
\* UserNotFoundError, any other exception becomes DownloadError
DownloadAllUserPosts(max_cursor, profile) ==
    /\ paging.pc = "idle"
    /\ paging' = CASE profile = "missing" -> [paging EXCEPT !.pc = "UserNotFoundError"]
                  [] profile = "raise" -> [paging EXCEPT !.pc = "DownloadError"]
                  [] OTHER -> [paging EXCEPT !.pc = "fetch", !.current_cursor = max_cursor]

\* what _fetch_posts_batch gives: an exception, {} at the end of the
\* iterator, or a page with its has_more and max_cursor
BatchOutcomes ==
    {[kind |-> k, has_more |-> FALSE, max_cursor |-> 0] : k \in {"raise", "empty"}}
        \cup {[kind |-> "posts", has_more |-> h, max_cursor |-> c] :
                h \in BOOLEAN, c \in 0..MaxCursor}

\* the handler "except Exception as batch_error: ... continue" (303-308):
\* the loop goes round with the locals as they are
ContinueAfterError(p) == [p EXCEPT !.pc = "fetch", !.iterations = @ + 1, !.posts = None]

\* _fetch_posts_batch returns (lines 274-279)
FetchPostsReturn(outcome) ==
    /\ paging.pc = "fetch"
    /\ outcome.kind # "empty" => paging.iterations < MaxIterations
    /\ paging' = CASE outcome.kind = "raise" -> ContinueAfterError(paging)
                  [] outcome.kind = "empty" -> [paging EXCEPT !.pc = "returned"]
                  [] OTHER -> [paging EXCEPT !.pc = "process", !.posts = Some(outcome)]

\* _process_posts_batch returns and the cursor is advanced (lines 281-301)
ProcessPostsReturn(outcome) ==
    /\ paging.pc = "process"
    /\ LET posts == paging.posts[1]
           next_cursor == IF posts.max_cursor = paging.current_cursor
                          THEN paging.current_cursor + 1 ELSE posts.max_cursor
       IN  paging' =
            IF outcome = "raise" THEN ContinueAfterError(paging)
            ELSE IF ~posts.has_more \/ posts.max_cursor = 0
                 THEN [paging EXCEPT !.pc = "returned", !.posts = None]
                 ELSE [paging EXCEPT !.pc = "fetch", !.iterations = @ + 1,
                                     !.posts = None, !.current_cursor = next_cursor]


(***************************************************************************)
(* The service                                                             *)
(***************************************************************************)
\* LivestreamService.__init__ (line 53): an empty registry
Init ==
    /\ calls = [c \in Calls |-> IdleCall]
    /\ download_jobs = [s \in Services |-> [k \in {} |-> 0]]
    /\ tasks = [c \in Calls |-> None]
    /\ files = {}
    /\ fs_dirs = {}
    /\ selection = NoSelection
    /\ UsersIdle /\ HttpIdle /\ PagingIdle

\* the steps of one download_stream request whose identifier is drawn from urls
StartSteps(self, c, urls) ==
    \/ /\ Arrives(c)
       /\ \E url \in urls, out \in OutputPaths : Begin(self, c, url, out)
    \/ \E o \in FetcherOutcomes : FetcherReturn(c, o)
    \/ \E raised \in BOOLEAN, r \in ProfileRoomIds : ProfileReturn(c, raised, r)
    \/ \E o \in LiveOutcomes(calls[c].webcast_id) : Source1Return(c, o)
    \/ \E o \in FetcherOutcomes : Source2Convert(c, o)
    \/ \E o \in LiveOutcomes(calls[c].converted_id) : Source2Fetch(c, o)
    \/ \E o \in LiveOutcomes(calls[c].webcast_id) : Source3Return(c, o)

\* the steps of the background task a request spawned
TaskSteps(c) ==
    \/ TaskWrite(c)
    \/ \E o \in TaskOutcomes : TaskEnd(c, o)

\* the service under concurrent requests
Next ==
    /\ \E c \in Calls :
        \/ StartSteps(Shared, c, Identifiers)
        \/ TaskSteps(c)
        \/ /\ Arrives(c)
           /\ \E op \in OperationIds : StatusRequest(Shared, c, op)
    /\ UNCHANGED <<selection, user_vars, http_vars, paging>>

Spec == Init /\ [][Next]_vars

\* one download_stream request on a fresh service, over every resolver input
StartNext ==
    /\ StartSteps(Shared, 1, ResolverInputs) \/ TaskSteps(1)
    /\ UNCHANGED <<selection, user_vars, http_vars, paging>>

StartSpec == Init /\ [][StartNext]_vars

\* one download_stream request on a service instance whose status is then polled
PollNext ==
    /\ \/ StartSteps(Shared, 1, Identifiers)
       \/ TaskSteps(1)
       \/ \E c \in Calls \ {1} :
            /\ Arrives(c)
            /\ \E op \in OperationIds : StatusRequest(Shared, c, op)
    /\ UNCHANGED <<selection, user_vars, http_vars, paging>>

PollSpec == Init /\ [][PollNext]_vars

\* the user ids of the user route
UserIds == {<<"u">>}

\* the user route's url: f"https://www.douyin.com/user/{user_id}"
ProfileUrl(user_id) == Https \o <<"w", "w", "w", ".">> \o DouyinCom \o UserPrefix \o user_id

\* the urls the two download routes hand to download_stream: the url route
\* its request's url, the user route the profile url of its user_id
RestUrls == Identifiers \cup {ProfileUrl(u) : u \in UserIds}

\* the REST routes: Depends(LivestreamService) constructs the service anew for
\* each request, so request c runs on an instance of its own
RestNext ==
    /\ \E c \in Calls :
        \/ StartSteps(c, c, RestUrls)
        \/ TaskSteps(c)
        \/ /\ Arrives(c)
           /\ \E op \in OperationIds : StatusRequest(c, c, op)
    /\ UNCHANGED <<selection, user_vars, http_vars, paging>>

RestSpec == Init /\ [][RestNext]_vars

\* _select_stream_url called once on each variant map
SelectorInit ==
    /\ calls = [c \in Calls |-> IdleCall]
    /\ download_jobs = [s \in Services |-> [k \in {} |-> 0]]
    /\ tasks = [c \in Calls |-> None]
    /\ files = {}
    /\ fs_dirs = {}
    /\ \E m \in StreamMaps : selection = [NoSelection EXCEPT !.pc = "call", !.stream_map = m]
    /\ UsersIdle /\ HttpIdle /\ PagingIdle

SelectorNext == SelectReturn /\ UNCHANGED <<user_vars, http_vars, paging>>

SelectorSpec == SelectorInit /\ [][SelectorNext]_vars

(***************************************************************************)
(* Properties                                                              *)
(***************************************************************************)
Running(c) == tasks[c] # None /\ tasks[c][1].state = "running"

Ended(c) == tasks[c] # None /\ tasks[c][1].state # "running"

Responded(c, status) ==
    calls[c].response # None /\ calls[c].response[1].status = status

\* request c returns from download_stream in this step
StartReturns(c) ==
    /\ calls[c].pc # "done"
    /\ calls'[c].pc = "done"
    /\ calls'[c].response[1].status \in {"pending", "error"}

\* C1: of the start() calls for one room that overlap, only one is accepted:
\* no two background downloads run at once under one job key, even when each
\* call's duplicate check looked up that very key (so that only the suspension
\* between the check and the insert can have let both through).
C1_OneJobPerRoom ==
    \A a, b \in Calls :
        (a # b /\ Running(a) /\ Running(b))
            => ~(/\ tasks[a][1].job_id = tasks[b][1].job_id
                 /\ tasks[a][1].checked_key = tasks[a][1].job_id
                 /\ tasks[b][1].checked_key = tasks[b][1].job_id)

\* C2: a start() whose identifier resolves to a room whose id already is a
\* registry key never gets past the duplicate check, whichever kind of
\* identifier named the room.
C2_DuplicateRejected ==
    [][\A c \in Calls :
        (calls[c].pc \in {"idle", "fetcher", "profile"} /\ calls'[c].pc = "src1")
            => RoomOf(calls'[c].webcast_id) \notin DOMAIN download_jobs[Shared]]_vars

\* C3: every running background download has a registry entry under its job
\* key: entries are released only by the download that owns them, at its exit.
C3_RunningHasEntry ==
    \A c \in Calls : Running(c) => tasks[c][1].job_id \in DOMAIN download_jobs[Shared]

\* C4: once the background download of an accepted job has ended, normally or
\* not, status(job id) reports an outcome: it does not raise not-found.
C4_EndedJobQueryable ==
    \A c \in Calls :
        Ended(c) => GetDownloadStatus(Shared, tasks[c][1].job_id).kind # "not_found"

\* C5: a job whose background download failed keeps its registry entry, so
\* that status(job id) can report the failure.
C5_FailedJobRetained ==
    \A c \in Calls :
        (tasks[c] # None /\ tasks[c][1].state = "failed")
            => tasks[c][1].job_id \in DOMAIN download_jobs[Shared]

\* C6: a start() that returns an error leaves the registry and the tasks as
\* they were; a start() that returns pending has added one registry entry and
\* one task, which is still running when it returns.
C6_StartFrame ==
    [][\A c \in Calls :
        StartReturns(c) =>
            IF calls'[c].response[1].status = "error"
            THEN download_jobs' = download_jobs /\ tasks' = tasks
            ELSE /\ Cardinality(DOMAIN download_jobs'[Shared]) =
                        Cardinality(DOMAIN download_jobs[Shared]) + 1
                 /\ tasks[c] = None
                 /\ tasks'[c] # None
                 /\ tasks'[c][1].state = "running"
                 /\ \A b \in Calls \ {c} : tasks'[b] = tasks[b]]_vars

\* C7: a start() is accepted only when the status the upstream payload carried
\* is exactly 2; with any other status, or none, it returns the not-live error
\* and neither a task nor a registry entry exists for it.
C7_AcceptOnlyLive ==
    \A c \in Calls :
        calls[c].decision # None =>
            LET d == calls[c].decision[1]
                r == calls[c].response[1]
            IN  /\ r.status = "pending" => d.upstream_status = Some(LIVE)
                /\ d.upstream_status # Some(LIVE) =>
                        /\ r.status = "error"
                        /\ r.error = "User is not currently streaming"
                        /\ tasks[c] = None
                        /\ \A k \in DOMAIN download_jobs[Shared] : download_jobs[Shared][k] # c

\* a start() whose payload carried no status at all was rejected as not live
C7_Witness ==
    \E c \in Calls :
        /\ calls[c].decision # None
        /\ calls[c].decision[1].info_src = "live"
        /\ calls[c].decision[1].upstream_status = None
        /\ calls[c].response[1].error = "User is not currently streaming"

\* C8: the status, room id and variant map an accepted start() decided on are
\* never a mix of values from the profile lookup and from the live-info lookup.
C8_SingleSource ==
    \A c \in Calls :
        (calls[c].decision # None /\ Responded(c, "pending")) =>
            LET d == calls[c].decision[1]
            IN  ~({"live", "profile"} \subseteq {d.info_src, d.room_src, d.map_src})

\* C9: start() decides on room information only when a live-info source
\* returned it; when every source failed, no stand-in with a defaulted status
\* is decided on.
C9_NoDefaultedRoomInfo ==
    \A c \in Calls :
        calls[c].decision # None => calls[c].decision[1].info_src = "live"

\* the last non-empty segment of a path, the empty string when there is none
LastNonEmptySegment(path) ==
    LET filled == {i \in 1..Len(path) : path[i] # "/"}
        last == MaxOf(filled)
        before == {i \in 1..last : path[i] = "/"}
    IN  IF filled = {} THEN <<>>
        ELSE SubSeq(path, IF before = {} THEN 1 ELSE MaxOf(before) + 1, last)

\* the path of an identifier read as a URL
UrlPathOf(identifier) ==
    urlparse(IF contains(identifier, <<":", "/", "/">>) THEN identifier
             ELSE Https \o identifier).path

\* request c stands at the duplicate check's far side with `id`, having asked
\* neither the webcast-id service nor the profile service
ResolvedOffline(c, id) ==
    /\ calls[c].pc = "src1"
    /\ calls[c].webcast_id = id
    /\ calls[c].fetcher_calls = 0
    /\ calls[c].profile_calls = 0

\* C10: an all-digit trimmed identifier is the room id as it stands, and a URL
\* whose last non-empty path segment is all digits resolves to that segment;
\* neither case calls the webcast-id service or the profile service.
C10_DirectResolution ==
    \A c \in Calls :
        calls[c].url # None =>
            LET trimmed == strip(calls[c].url)
                segment == LastNonEmptySegment(UrlPathOf(trimmed))
            IN  /\ isdigit(trimmed) => ResolvedOffline(c, trimmed)
                /\ (~isdigit(trimmed) /\ isdigit(segment)) => ResolvedOffline(c, segment)

\* the live URL with a trailing slash resolved to its last segment
C10_Witness ==
    \E c \in Calls : calls[c].url = IdLiveUrl /\ ResolvedOffline(c, WebRid)

\* C11: a first call of the webcast-id service that fails with a transient
\* error (an exception other than the service's own response error) is
\* followed by another call of the service: the request stays at that stage
\* and does not fall through to the next strategy after a single attempt.
C11_TransientRetried ==
    [][\A c \in Calls :
        (calls[c].fetcher_calls = 0 /\ FetcherReturn(c, Raise))
            => calls'[c].pc = "fetcher"]_vars

\* the webcast-id service answered without an id: it raised or returned nothing
FetcherFailed(o) == o.kind # "payload" \/ o.value = None

PopulatedIn(stream_map, order) ==
    {k \in 1..Len(order) :
        \E i \in 1..Len(stream_map) :
            stream_map[i][1] = order[k] /\ stream_map[i][2] # ""}

\* C13: the selector returns the URL of the first of FULL_HD1, HD1, SD1, SD2
\* that the map holds with a non-empty URL; only when the map holds none of
\* the four does it return another entry's URL.
C13_PreferenceOrder ==
    selection.pc = "returned" =>
        LET order == <<"FULL_HD1", "HD1", "SD1", "SD2">>
            m == selection.stream_map
            hits == PopulatedIn(m, order)
            others == {i \in 1..Len(m) : \A k \in 1..Len(order) : m[i][1] # order[k]}
        IN  IF hits # {}
            THEN \E i \in 1..Len(m) :
                    /\ m[i][1] = order[MinOf(hits)]
                    /\ selection.url = Some(m[i][2])
            ELSE \/ selection.url = None
                 \/ \E i \in others : selection.url = Some(m[i][2])

\* FULL_HD1 was selected from a map that lists SD2 and HD1 before it
C13_Witness ==
    /\ selection.pc = "returned"
    /\ selection.stream_map = << <<"SD2", "live_sd2">>, <<"HD1", "live_hd1">>,
                                  <<"FULL_HD1", "live_full_hd1">> >>
    /\ selection.url = Some("live_full_hd1")

\* C14 as stated: the selector returns nothing exactly when the map is empty.
C14_OnlyEmptyMapFails ==
    selection.pc = "returned" =>
        (selection.url = None <=> selection.stream_map = EmptyMap)

\* C14, amended: the selector returns nothing exactly when no entry of the map
\* has a non-empty URL; otherwise what it returns is the non-empty URL of an
\* entry of the map.
C14_FailsWithoutPopulatedEntry ==
    selection.pc = "returned" =>
        LET m == selection.stream_map
            populated == {i \in 1..Len(m) : m[i][2] # ""}
        IN  IF populated = {} THEN selection.url = None
            ELSE \E i \in populated : selection.url = Some(m[i][2])

\* an entry outside the preferred labels was selected past an empty SD2
C14_Witness ==
    /\ selection.pc = "returned"
    /\ selection.stream_map = << <<"SD2", "">>, <<"OTHER", "live_other">> >>
    /\ selection.url = Some("live_other")

\* some output file of the job id is on disk, in whatever directory
ArtifactOnDisk(operation_id) == \E f \in files : f.name = operation_id

C16_RunningReportsInProgress ==
    \A op \in DOMAIN download_jobs[Shared] :
        GetDownloadStatus(Shared, op).kind = "in_progress"

\* C17: once an accepted job has completed with its output file written,
\* get_download_status of its job id answers with that file, the path that
\* start() returned, whichever output_path the job was started with.
C17_CompletedReportsOutput ==
    \A c \in Calls :
        (/\ tasks[c] # None
         /\ tasks[c][1].state = "completed"
         /\ TargetFile(tasks[c][1].output_dir, tasks[c][1].job_id) \in files)
            => /\ GetDownloadStatus(Shared, tasks[c][1].job_id).kind = "file"
               /\ GetDownloadStatus(Shared, tasks[c][1].job_id).path = calls[c].response[1].path

\* request c is a status request for operation_id that is answered in this step
StatusReturns(c, operation_id) ==
    /\ calls[c].pc = "idle"
    /\ calls'[c].pc = "done"
    /\ calls'[c].response[1].status \in {"file", "in_progress", "not_found"}
    /\ calls'[c].response[1].operation_id = operation_id

\* C18: while the job one request started is running, a later start request
\* for its job id does not pass the duplicate check, and a later status
\* request for its job id is not answered not-found: every request works on
\* the registry that holds the job.
C18_SharedRegistry ==
    [][\A c, b \in Calls :
        (b # c /\ Running(b)) =>
            /\ (calls[c].pc # "src1" /\ calls'[c].pc = "src1")
                    => calls'[c].webcast_id # tasks[b][1].job_id
            /\ StatusReturns(c, tasks[b][1].job_id)
                    => calls'[c].response[1].status # "not_found"]_vars

\* directory dir is root or lies beneath it
Beneath(dir, root) ==
    /\ Len(PathParts(dir)) >= Len(PathParts(root))
    /\ SubSeq(PathParts(dir), 1, Len(PathParts(root))) = PathParts(root)

\* C19: every directory download_stream has created and every output file a
\* downloader has written lies beneath the base recording root, whatever
\* output_path the request carried.
C19_ConfinedToRoot ==
    /\ \A d \in fs_dirs : Beneath(d, DefaultDir)
    /\ \A f \in files : Beneath(f.dir, DefaultDir)

\* UserService as constructed, the rest of the application at rest
UserInit ==
    /\ calls = [c \in Calls |-> IdleCall]
    /\ download_jobs = [s \in Services |-> [k \in {} |-> 0]]
    /\ tasks = [c \in Calls |-> None]
    /\ files = {}
    /\ fs_dirs = {}
    /\ selection = NoSelection
    /\ UsersIdle /\ HttpIdle /\ PagingIdle

\* the user service under concurrent downloads
DownloadNext ==
    /\ \/ \E user_id \in Nicknames, max_items \in ItemLimits : StartDownload(user_id, max_items)
       \/ \E t \in TaskIds : ProcessSteps(t)
    /\ UNCHANGED <<live_vars, selection, http_vars, paging>>

DownloadSpec == UserInit /\ [][DownloadNext]_vars

\* the ids status is asked for: every task id, and 0, which no task ever has
PollIds == 0..MaxTasks

\* downloads whose post feed cannot be fetched, with status polls in between
TrackNext ==
    /\ \/ \E user_id \in Nicknames, max_items \in ItemLimits : StartDownload(user_id, max_items)
       \/ \E t \in TaskIds :
            \/ ProcessStart(t)
            \/ \E removed \in BOOLEAN :
                \/ \E outcome \in ProfileOutcomes : UserProfileReturn(t, outcome, removed)
                \/ \E outcome \in {o \in PageOutcomes : o.kind = "raise"} :
                        UserPageReturn(t, outcome, removed)
            \/ UserEvict(t)
       \/ \E task_id \in PollIds : UserStatusRequest(task_id)
    /\ UNCHANGED <<live_vars, selection, http_vars, paging>>

TrackSpec == UserInit /\ [][TrackNext]_vars

\* C21: every start_download registers exactly one new task, under an id no
\* task had before, with status "pending" and progress 0, and schedules
\* exactly one background task, the one of that id; every get_download_status
\* answers an id of the registry with the status the registry holds for it and
\* raises DownloadError for every id that is not in the registry.
C21_StartAndStatus ==
    [][
        /\ (/\ DOMAIN active_downloads' # DOMAIN active_downloads
            /\ DOMAIN active_downloads \subseteq DOMAIN active_downloads') =>
                \E t \in TaskIds :
                    /\ DOMAIN active_downloads' = DOMAIN active_downloads \cup {t}
                    /\ t \notin DOMAIN active_downloads
                    /\ workers[t].pc = "none"
                    /\ active_downloads'[t].status = "pending"
                    /\ active_downloads'[t].progress = 0
                    /\ {u \in TaskIds : workers'[u] # workers[u]} = {t}
                    /\ workers'[t].pc = "scheduled"
        /\ \A task_id \in PollIds : UserStatusRequest(task_id) =>
                IF task_id \in DOMAIN active_downloads
                THEN /\ user_poll'[1].kind = "ok"
                     /\ user_poll'[1].status = active_downloads[task_id].status
                ELSE user_poll'[1].kind = "DownloadError"
    ]_vars

\* a poll was answered DownloadError while two tasks are registered, one of
\* them still pending and one already failed
C21_Witness ==
    /\ user_poll # None
    /\ user_poll[1].kind = "DownloadError"
    /\ Cardinality(DOMAIN active_downloads) = 2
    /\ \E t \in DOMAIN active_downloads : active_downloads[t].status = "pending"
    /\ \E t \in DOMAIN active_downloads : active_downloads[t].status = "failed"

\* C22: a task started with max_items = m never shows more than m
\* downloaded_items.
C22_WithinMaxItems ==
    \A t \in DOMAIN active_downloads :
        LET task == active_downloads[t]
        IN  (task.max_items # None /\ task.downloaded_items # None) =>
                task.downloaded_items[1] <= task.max_items[1]

\* C26: concurrent download tasks do not meet in temp_downloads: a file whose
\* task is still running leaves the directory only in a step of that task
\* (its own upload or its own cleanup), and a task uploads only files that it
\* downloaded itself.
C26_TasksDoNotInterfere ==
    [][
        /\ \A f \in temp_files \ temp_files' :
                active_downloads[f.by].status = "running" =>
                    workers'[f.by] # workers[f.by]
        /\ \A t \in TaskIds, f \in temp_files, removed \in BOOLEAN :
                UserUploadReturn(t, f, "ok", removed) => f.by = t
    ]_vars

\* the statuses a task ends in
TerminalStatuses == {"completed", "partial", "failed"}

HealthInit ==
    /\ calls = [c \in Calls |-> IdleCall]
    /\ download_jobs = [s \in Services |-> [k \in {} |-> 0]]
    /\ tasks = [c \in Calls |-> None]
    /\ files = {}
    /\ fs_dirs = {}
    /\ selection = NoSelection
    /\ UsersIdle /\ PagingIdle
    /\ settings \in AllSettings
    /\ rss \in RssValues
    /\ requests = [r \in Requests |-> NoRequest]
    /\ logger_correlation_id = None
    /\ log = {}
    /\ storage = NoStorage

HealthNext ==
    /\ \/ \E client_request_id \in RequestIdHeaders :
            MiddlewareEnter(1, client_request_id, "health")
       \/ RouteReturn(1, "found")
       \/ MiddlewareExit(1)
       \/ R2StorageServiceInit
       \/ \E outcome \in {"ok", "error"} : UploadFile(outcome)
    /\ UNCHANGED <<live_vars, selection, user_vars, paging>>

HealthSpec == HealthInit /\ [][HealthNext]_vars

\* the X-Request-ID headers of the concurrent requests
ConcurrentHeaders == {None, Some(ClientUuid)}

\* concurrent requests to the three routes, through the middleware
HttpNext ==
    /\ \E r \in Requests :
        \/ \E client_request_id \in ConcurrentHeaders, route \in Routes :
                MiddlewareEnter(r, client_request_id, route)
        \/ \E outcome \in LookupOutcomes : RouteReturn(r, outcome)
        \/ MiddlewareExit(r)
    /\ UNCHANGED <<live_vars, selection, user_vars, paging, settings, rss, storage>>

HttpSpec == UserInit /\ [][HttpNext]_vars

\* the /health responses produced so far
HealthResponses ==
    {r \in Requests : requests[r].route = "health" /\ requests[r].pc \in {"respond", "done"}}

\* C23: /health reports "unhealthy" whenever the cookie is empty, whatever R2
\* and memory are; "degraded" when the cookie is set but one of the R2 fields
\* is_configured asks for is empty or resident memory exceeds 1 GiB;
\* "healthy" otherwise; and the status code is 200 exactly for "healthy" and
\* 503 for the other two.
C23_HealthStatus ==
    \A r \in HealthResponses :
        LET reported == requests[r].body[1].status
            r2_set == \A f \in {"account_id", "access_key_id", "secret_access_key",
                                "bucket_name"} : settings.r2[f] # ""
        IN  /\ reported = IF settings.cookie = "" THEN "unhealthy"
                          ELSE IF ~r2_set \/ rss > 1024 * 1024 * 1024 THEN "degraded"
                          ELSE "healthy"
            /\ requests[r].status_code = IF reported = "healthy" THEN 200 ELSE 503

\* /health has answered 503 "degraded" for memory alone: cookie and R2 are
\* set and resident memory is one byte over 1 GiB
C23_Witness ==
    \E r \in HealthResponses :
        /\ requests[r].pc = "done"
        /\ settings = FullSettings
        /\ rss = 1024 * 1024 * 1024 + 1
        /\ requests[r].body[1].status = "degraded"
        /\ requests[r].status_code = 503

\* request r sent an X-Request-ID that parses as a UUID
SentUuid(r) ==
    /\ requests[r].x_request_id # None
    /\ UuidParses(requests[r].x_request_id[1])

\* s is a UUID in canonical form: lower-case hex digits grouped 8-4-4-4-12
IsCanonical(s) ==
    /\ Len(s) = 36
    /\ \A i \in 1..36 :
            IF i \in {9, 14, 19, 24} THEN s[i] = "-"
            ELSE s[i] \in Digits \cup {"a", "b", "c", "d", "e", "f"}

\* the header and the body of a finished /health request carry the
\* correlation id of the request state
IdEchoed(r) ==
    /\ requests[r].x_correlation_id = Some(requests[r].correlation_id)
    /\ requests[r].body[1].correlation_id = requests[r].correlation_id

C25_MissingIs404 ==
    /\ \A r \in Requests :
            (/\ requests[r].pc \in {"respond", "done"}
             /\ requests[r].route \in {"user", "post"}
             /\ requests[r].outcome = "missing") => requests[r].status_code = 404
    /\ \A r \in Requests :
            (requests[r].pc \in {"respond", "done"} /\ requests[r].route = "post") =>
                \A c \in NotFoundErrors : handle_errors(c) = 404

\* C27: every entry the middleware logs for a request carries that request's
\* own correlation id, never another one and never none.
C27_OwnCorrelationId ==
    \A e \in log : e.correlation_id = Some(requests[e.request].correlation_id)

\* C30: whenever /health reports r2_storage "available", an R2StorageService
\* built from the same settings has a client, and its operations do not fail
\* as disabled.
C30_AvailableMeansEnabled ==
    \A r \in HealthResponses :
        requests[r].body[1].r2_storage = "available" =>
            /\ storage.built => storage.client
            /\ storage.upload # "disabled"

\* one call of download_all_user_posts
PagingNext ==
    /\ \/ \E max_cursor \in 0..MaxCursor, profile \in PagingProfiles :
            DownloadAllUserPosts(max_cursor, profile)
       \/ \E outcome \in BatchOutcomes : FetchPostsReturn(outcome)
       \/ \E outcome \in {"ok", "raise"} : ProcessPostsReturn(outcome)
    /\ UNCHANGED <<live_vars, selection, user_vars, http_vars>>

PagingSpec == UserInit /\ [][PagingNext]_vars

\* C29: the pagination loop of download_all_user_posts cannot run forever,
\* also not when fetching or processing a batch raises every time: every
\* iteration that goes round moves to a cursor it has not just been at.
C29_IterationMovesCursor ==
    [][paging'.iterations = paging.iterations + 1 =>
            paging'.current_cursor # paging.current_cursor]_vars

====
